---- MODULE Spec2Model ----
(***************************************************************************)
(* Model of yamm/maps/nx/readers/tomtom_readers.py: the TomTom readers     *)
(* that turn the rows of a road-link table into a routable networkx        *)
(* MultiDiGraph.                                                           *)
(*                                                                         *)
(* Numbers that the code holds as floats are modelled as exact fractions   *)
(* <<n, d>> in lowest terms with d >= 0; d = 0 encodes the IEEE results of *)
(* a division by zero: <<1, 0>> is +inf, <<-1, 0>> is -inf, <<0, 0>> is    *)
(* NaN.  A nullable column value is <<>> (NULL / NaN) or <<v>>.            *)
(* Coordinates are such fractions too: degrees in epsg:4326, metres to the *)
(* centimetre in epsg:3857.                                                *)
(***************************************************************************)
EXTENDS Integers, Sequences, FiniteSets, TLC

\* ---------------------------------------------------------------- bounds
\* junction identifiers are drawn from 1..MaxNode
MaxNode == 3

\* number of rows the query may return in the topology family of inputs
RowCounts == {0, 1, 2}

\* ------------------------------------------------------------- constants
\* fillna(20): the default speed of get_tomtom_gdf_2021
DefaultSpeed == 20

LATLON_CRS == "epsg:4326"
XY_CRS == "epsg:3857"

NoLinksMsg == "MapException: road network has no links; check geofence boundaries"
NotRoutableMsg == "MapException: road network has no strongly connected components and is not routable; check polygon boundaries."
\* crs.to_authority(), as the f-string prints the tuple
to_authority(crs) ==
    IF crs = LATLON_CRS THEN "('EPSG', '4326')" ELSE "('EPSG', '3857')"

\* lines 29-31: the message carries the authority of the geofence's crs
CrsMsg(crs) ==
    "TypeError: the geofence must in the epsg:4326 crs but got " \o to_authority(crs)

\* lines 40-42: the message carries the vintage that was asked for
VintageMsg(v) ==
    "TypeError: vintage " \o v \o " not supported; must be either '2021' or '2017'"
MaxEmptyMsg == "ValueError: max() arg is an empty sequence"

\* ------------------------------------------------------ float arithmetic
Abs(x) == IF x < 0 THEN -x ELSE x

Sgn(x) == IF x < 0 THEN -1 ELSE IF x = 0 THEN 0 ELSE 1

RECURSIVE GCD(_, _)
GCD(a, b) == IF b = 0 THEN a ELSE GCD(b, a % b)

\* the fraction n/d in lowest terms, sign carried by the numerator
Norm(n, d) ==
    IF d = 0 THEN <<Sgn(n), 0>>
    ELSE LET g == GCD(Abs(n), Abs(d))
         IN  <<(Sgn(n) * Sgn(d) * Abs(n)) \div g, Abs(d) \div g>>

Num(i) == <<i, 1>>

FMul(x, y) == Norm(x[1] * y[1], x[2] * y[2])

FDiv(x, y) == Norm(x[1] * y[2], x[2] * y[1])

IsInf(x) == x[2] = 0 /\ x[1] # 0

\* --------------------------------------------------------- column values
NULL == <<>>

Some(v) == <<v>>

\* Series.fillna(d) on one value
fillna(x, d) == IF x = NULL THEN d ELSE x[1]

\* LineString(reversed(g.coords))
RECURSIVE reversed(_)
reversed(s) == IF s = <<>> THEN <<>> ELSE Append(reversed(Tail(s)), Head(s))

\* ------------------------------------------------- get_tomtom_gdf_2021
\* a plausible slip: a speed of 0 is taken for a missing one
fill_speed_zero(x) == IF x = NULL \/ x = Some(0) THEN DefaultSpeed ELSE x[1]

\* lines 79-80: speed.fillna(20) on one value
fill_speed(x) == fillna(x, DefaultSpeed)

\* one row after the column assignments of lines 79-83
Row2021(r) ==
    LET sn == fill_speed(r.speed_average_neg)
        sp == fill_speed(r.speed_average_pos)
        km == FMul(Num(r.centimeters), <<1, 100000>>)
    IN  [junction_id_from |-> r.junction_id_from,
         junction_id_to |-> r.junction_id_to,
         netw_id |-> r.netw_id,
         simple_traffic_direction |-> r.simple_traffic_direction,
         centimeters |-> r.centimeters,
         geom |-> r.geom,
         speed_average_neg |-> sn,
         speed_average_pos |-> sp,
         kilometers |-> km,
         neg_minutes |-> FMul(FDiv(km, Num(sn)), Num(60)),
         pos_minutes |-> FMul(FDiv(km, Num(sp)), Num(60))]

\* the crs of the frame that is returned (lines 75-76 and 85-86; 117-118 and
\* 124-125)
FrameCrs(raw_crs, xy_) ==
    IF xy_ THEN XY_CRS ELSE fillna(raw_crs, LATLON_CRS)

\* the epsg:3857 easting of a longitude of whole degrees: 111319.49079327
\* metres (R * pi / 180) per degree, rounded to the centimetre
MercatorX(lon) ==
    LET deg == Abs(lon[1]) \div lon[2]
    IN  Norm(Sgn(lon[1]) * (deg * 11131949 + (deg * 79327 + 500000) \div 1000000),
             100)

\* the epsg:3857 northing, R * ln(tan(pi/4 + lat/2)), in centimetres, of the
\* latitudes of 1 to 8 whole degrees
MercatorCm ==
    <<11132514, 22268421, 33411117, 44564011, 55730526, 66914106, 78118221,
      89346375>>

\* the epsg:3857 northing of a latitude of 0 to 8 whole degrees
MercatorY(lat) ==
    IF lat[1] = 0 THEN Num(0) ELSE Norm(MercatorCm[lat[1] \div lat[2]], 100)

\* GeoDataFrame.to_crs on one geometry whose crs is src: the coordinates are
\* reprojected unless the frame is in the target crs already
to_crs(geom, src, dst) ==
    IF src = dst THEN geom
    ELSE [i \in 1..Len(geom) |-> <<MercatorX(geom[i][1]), MercatorY(geom[i][2])>>]

\* lines 85-86 and 124-125 on the geometry column of one row
Reproject(geom, raw_crs, xy_) ==
    IF xy_ THEN to_crs(geom, fillna(raw_crs, LATLON_CRS), XY_CRS) ELSE geom

\* gdf.empty
Empty(frame) == frame.rows = <<>>

\* the frame get_tomtom_gdf_2021 returns when it does not raise
get_tomtom_gdf_2021(frame, xy_) ==
    [rows |-> [i \in 1..Len(frame.rows) |->
                  [Row2021(frame.rows[i]) EXCEPT
                      !.geom = Reproject(@, frame.crs, xy_)]],
     crs |-> FrameCrs(frame.crs, xy_)]

\* ------------------------------------------------- get_tomtom_gdf_2017
\* NaN < c is False
Lt(x, c) == x # NULL /\ x[1] < c

\* line 122: the row mask (rdcond < 2) & (frc < 8)
Keep2017(r) == Lt(r.rdcond, 2) /\ Lt(r.frc, 8)

\* line 120 then the fillna(0) of line 122, on one row that passed the mask
Row2017(r) ==
    LET km == IF r.meters = NULL THEN NULL
              ELSE Some(FDiv(Num(r.meters[1]), Num(1000)))
    IN  [id |-> r.id,
         f_jnctid |-> r.f_jnctid,
         t_jnctid |-> r.t_jnctid,
         frc |-> fillna(r.frc, 0),
         rdcond |-> fillna(r.rdcond, 0),
         meters |-> fillna(r.meters, 0),
         minutes |-> fillna(r.minutes, Num(0)),
         oneway |-> r.oneway,
         wkb_geometry |-> r.wkb_geometry,
         kilometers |-> fillna(km, Num(0))]

\* the frame get_tomtom_gdf_2017 returns when it does not raise
get_tomtom_gdf_2017(frame, xy_) ==
    LET kept == SelectSeq(frame.rows, Keep2017)
    IN  [rows |-> [i \in 1..Len(kept) |->
                      [Row2017(kept[i]) EXCEPT
                          !.wkb_geometry = Reproject(@, frame.crs, xy_)]],
         crs |-> FrameCrs(frame.crs, xy_)]

\* ------------------------------------- tomtom_gdf_to_nx_graph_2021: edges
Attr(km, mn, g, rid) ==
    [kilometers |-> km, minutes |-> mn, geom |-> g, road_id |-> rid]

Edge(u, v, key, dd) == [u |-> u, v |-> v, key |-> key, dd |-> dd]

IsOnewayFT2021(r) == r.simple_traffic_direction = 2

IsOnewayTF2021(r) == r.simple_traffic_direction = 3

\* a plausible slip: every row that is not one-way is taken as two-way
IsTwoway2021_rest(r) == r.simple_traffic_direction \notin {2, 3}

IsTwoway2021(r) == r.simple_traffic_direction \in {1, 9}

\* the element of the comprehensions of lines 144-164 and 209-229
EdgeTF2021(r) ==
    Edge(r.junction_id_to, r.junction_id_from, r.netw_id,
         Attr(r.kilometers, r.neg_minutes, reversed(r.geom), r.netw_id))

\* the element of the comprehensions of lines 166-186 and 188-208
EdgeFT2021(r) ==
    Edge(r.junction_id_from, r.junction_id_to, r.netw_id,
         Attr(r.kilometers, r.pos_minutes, r.geom, r.netw_id))

twoway_edges_tf_2021(rows) ==
    LET sel == SelectSeq(rows, IsTwoway2021)
    IN  [i \in 1..Len(sel) |-> EdgeTF2021(sel[i])]

twoway_edges_ft_2021(rows) ==
    LET sel == SelectSeq(rows, IsTwoway2021)
    IN  [i \in 1..Len(sel) |-> EdgeFT2021(sel[i])]

oneway_edges_ft_2021(rows) ==
    LET sel == SelectSeq(rows, IsOnewayFT2021)
    IN  [i \in 1..Len(sel) |-> EdgeFT2021(sel[i])]

\* a plausible slip: the forward comprehension pasted over the TF rows
oneway_edges_tf_2021_pasted(rows) ==
    LET sel == SelectSeq(rows, IsOnewayTF2021)
    IN  [i \in 1..Len(sel) |-> EdgeFT2021(sel[i])]

oneway_edges_tf_2021(rows) ==
    LET sel == SelectSeq(rows, IsOnewayTF2021)
    IN  [i \in 1..Len(sel) |-> EdgeTF2021(sel[i])]

\* the four lists in the order lines 232-235 hand them to add_edges_from
Edges2021(rows) ==
    twoway_edges_tf_2021(rows) \o twoway_edges_ft_2021(rows)
        \o oneway_edges_ft_2021(rows) \o oneway_edges_tf_2021(rows)

\* ------------------------------------- tomtom_gdf_to_nx_graph_2017: edges
\* Series.astype(int) on a finite float: truncation toward zero
astype_int(x) == Sgn(x[1]) * (Abs(x[1]) \div x[2])

\* lines 263-269: the columns the function writes back into the frame
Coerce2017(r) ==
    [id |-> astype_int(r.id),
     f_jnctid |-> astype_int(r.f_jnctid),
     t_jnctid |-> astype_int(r.t_jnctid),
     frc |-> r.frc,
     rdcond |-> r.rdcond,
     meters |-> r.meters,
     minutes |-> r.minutes,
     oneway |-> r.oneway,
     wkb_geometry |-> r.wkb_geometry,
     kilometers |-> r.kilometers,
     f_lon |-> r.wkb_geometry[1][1],
     f_lat |-> r.wkb_geometry[1][2],
     t_lon |-> r.wkb_geometry[Len(r.wkb_geometry)][1],
     t_lat |-> r.wkb_geometry[Len(r.wkb_geometry)][2]]

IsOnewayFT2017(r) == r.oneway = "FT"

IsOnewayTF2017(r) == r.oneway = "TF"

IsTwoway2017(r) == ~(r.oneway = "FT") /\ ~(r.oneway = "TF")

\* str(k)
str(k) == ToString(k)

\* the element of the comprehensions of lines 274-294 and 337-357
EdgeTF2017(r) ==
    Edge(r.t_jnctid, r.f_jnctid, -r.id,
         Attr(r.kilometers, r.minutes, reversed(r.wkb_geometry), str(-r.id)))

\* the element of the comprehensions of lines 295-315 and 316-336
EdgeFT2017(r) ==
    Edge(r.f_jnctid, r.t_jnctid, r.id,
         Attr(r.kilometers, r.minutes, r.wkb_geometry, str(r.id)))

\* the rows the comprehensions read: the frame after lines 263-269
Coerced2017(rows) == [i \in 1..Len(rows) |-> Coerce2017(rows[i])]

twoway_edges_tf_2017(rows) ==
    LET sel == SelectSeq(rows, IsTwoway2017)
    IN  [i \in 1..Len(sel) |-> EdgeTF2017(sel[i])]

twoway_edges_ft_2017(rows) ==
    LET sel == SelectSeq(rows, IsTwoway2017)
    IN  [i \in 1..Len(sel) |-> EdgeFT2017(sel[i])]

oneway_edges_ft_2017(rows) ==
    LET sel == SelectSeq(rows, IsOnewayFT2017)
    IN  [i \in 1..Len(sel) |-> EdgeFT2017(sel[i])]

oneway_edges_tf_2017(rows) ==
    LET sel == SelectSeq(rows, IsOnewayTF2017)
    IN  [i \in 1..Len(sel) |-> EdgeTF2017(sel[i])]

\* the four lists in the order lines 360-363 hand them to add_edges_from
Edges2017(rows) ==
    twoway_edges_tf_2017(rows) \o twoway_edges_ft_2017(rows)
        \o oneway_edges_ft_2017(rows) \o oneway_edges_tf_2017(rows)

\* ------------------------------------------------------ nx.MultiDiGraph
\* nodes: the node dict in insertion order; succ[u]: the successors of u in
\* insertion order; edges: one entry per (u, v, key), in insertion order
EmptyGraph == [nodes |-> <<>>, succ |-> <<>>, edges |-> <<>>]

InSeq(x, s) == \E i \in 1..Len(s) : s[i] = x

AddNode(nodes, n) == IF InSeq(n, nodes) THEN nodes ELSE Append(nodes, n)

SameEdge(a, b) == a.u = b.u /\ a.v = b.v /\ a.key = b.key

\* MultiDiGraph.add_edge(u, v, key) followed by self[u][v][key].update(dd):
\* an existing (u, v, key) keeps its place and has its attributes overwritten
add_edge(G, e) ==
    LET nodes1 == AddNode(AddNode(G.nodes, e.u), e.v)
        succ0 == [n \in {nodes1[i] : i \in 1..Len(nodes1)} |->
                     IF n \in DOMAIN G.succ THEN G.succ[n] ELSE <<>>]
        succ1 == [succ0 EXCEPT ![e.u] = AddNode(@, e.v)]
        edges1 == IF \E i \in 1..Len(G.edges) : SameEdge(G.edges[i], e)
                  THEN [i \in 1..Len(G.edges) |->
                           IF SameEdge(G.edges[i], e) THEN e ELSE G.edges[i]]
                  ELSE Append(G.edges, e)
    IN  [nodes |-> nodes1, succ |-> succ1, edges |-> edges1]

RECURSIVE add_edges_from(_, _)
add_edges_from(G, ebunch) ==
    IF ebunch = <<>> THEN G
    ELSE add_edges_from(add_edge(G, Head(ebunch)), Tail(ebunch))

\* lines 231-235 and 359-363
BuildGraph(edges) == add_edges_from(EmptyGraph, edges)

\* -------------------------------------- nx.strongly_connected_components
Min(S) == CHOOSE x \in S : \A y \in S : x <= y

SccInit ==
    [preorder |-> <<>>, lowlink |-> <<>>, scc_found |-> {}, scc_queue |-> <<>>,
     i |-> 0, ptr |-> <<>>, queue |-> <<>>, out |-> <<>>]

\* the first position >= p of nbrs holding a node without a preorder number,
\* or 0: the for loop over the iterator neighbors[v]
RECURSIVE NextUnvisited(_, _, _)
NextUnvisited(nbrs, p, pre) ==
    IF p > Len(nbrs) THEN 0
    ELSE IF nbrs[p] \notin DOMAIN pre THEN p
    ELSE NextUnvisited(nbrs, p + 1, pre)

\* the nodes popped from scc_queue while their preorder exceeds that of v,
\* and what is left of the queue
RECURSIVE PopScc(_, _, _, _)
PopScc(q, pre, v, acc) ==
    IF q # <<>> /\ pre[q[Len(q)]] > pre[v]
    THEN PopScc(SubSeq(q, 1, Len(q) - 1), pre, v, acc \cup {q[Len(q)]})
    ELSE [scc |-> acc, rest |-> q]

\* one pass of the body of "while queue"
SccStep(G, s) ==
    LET v == s.queue[Len(s.queue)]
        fresh == v \notin DOMAIN s.preorder
        i1 == IF fresh THEN s.i + 1 ELSE s.i
        pre1 == IF fresh THEN s.preorder @@ (v :> i1) ELSE s.preorder
        p0 == IF v \in DOMAIN s.ptr THEN s.ptr[v] ELSE 1
        j == NextUnvisited(G.succ[v], p0, pre1)
        setptr(k) == [n \in DOMAIN s.ptr \cup {v} |->
                         IF n = v THEN k ELSE s.ptr[n]]
    IN  IF j # 0
        THEN [s EXCEPT !.i = i1, !.preorder = pre1, !.ptr = setptr(j + 1),
                       !.queue = Append(@, G.succ[v][j])]
        ELSE LET nbrs == {G.succ[v][k] : k \in 1..Len(G.succ[v])} \ s.scc_found
                 low == Min({pre1[v]}
                            \cup {s.lowlink[w] : w \in {x \in nbrs : pre1[x] > pre1[v]}}
                            \cup {pre1[w] : w \in {x \in nbrs : pre1[x] <= pre1[v]}})
                 low1 == s.lowlink @@ (v :> low)
                 popped == PopScc(s.scc_queue, pre1, v, {v})
                 rest == SubSeq(s.queue, 1, Len(s.queue) - 1)
             IN  IF low = pre1[v]
                 THEN [s EXCEPT !.i = i1, !.preorder = pre1,
                                !.ptr = setptr(Len(G.succ[v]) + 1),
                                !.lowlink = low1,
                                !.scc_queue = popped.rest,
                                !.scc_found = @ \cup popped.scc,
                                !.out = Append(@, popped.scc),
                                !.queue = rest]
                 ELSE [s EXCEPT !.i = i1, !.preorder = pre1,
                                !.ptr = setptr(Len(G.succ[v]) + 1),
                                !.lowlink = low1,
                                !.scc_queue = Append(@, v),
                                !.queue = rest]

RECURSIVE SccWhile(_, _)
SccWhile(G, s) == IF s.queue = <<>> THEN s ELSE SccWhile(G, SccStep(G, s))

\* "for source in G", from position k of the node order
RECURSIVE SccFor(_, _, _)
SccFor(G, k, s) ==
    IF k > Len(G.nodes) THEN s
    ELSE IF G.nodes[k] \in s.scc_found THEN SccFor(G, k + 1, s)
    ELSE SccFor(G, k + 1, SccWhile(G, [s EXCEPT !.queue = <<G.nodes[k]>>]))

\* a plausible slip: low links never propagate, every node its own component
scc_singletons(G) == [k \in 1..Len(G.nodes) |-> {G.nodes[k]}]

\* the components in the order the generator yields them
strongly_connected_components(G) == SccFor(G, 1, SccInit).out

\* max(sg_components, key=len) on a non-empty sequence: the first of the
\* components of greatest size
RECURSIVE MaxByLen(_, _)
MaxByLen(comps, best) ==
    IF comps = <<>> THEN best
    ELSE MaxByLen(Tail(comps),
                  IF Cardinality(Head(comps)) > Cardinality(best)
                  THEN Head(comps) ELSE best)

\* a plausible slip: the reduction is skipped, every component is kept
max_len_all(comps) == UNION {comps[k] : k \in 1..Len(comps)}

max_len(comps) == MaxByLen(Tail(comps), Head(comps))

\* a plausible slip: an edge is kept when its source alone is retained
subgraph_by_source(G, nodes) ==
    [nodes |-> nodes,
     edges |-> {G.edges[i] : i \in {k \in 1..Len(G.edges) :
                   G.edges[k].u \in nodes}}]

\* nx.MultiDiGraph(G.subgraph(nodes)): the induced subgraph, copied
subgraph(G, nodes) ==
    [nodes |-> nodes,
     edges |-> {G.edges[i] : i \in {k \in 1..Len(G.edges) :
                   G.edges[k].u \in nodes /\ G.edges[k].v \in nodes}}]

\* lines 247-251 and 375-379
Tagged(g, crs) ==
    [nodes |-> g.nodes, edges |-> g.edges,
     graph |-> [crs |-> crs, distance_weight |-> "kilometers",
                time_weight |-> "minutes", geometry_key |-> "geom",
                road_id_key |-> "road_id"]]

\* "if not sg_components": the truth value of the generator object that
\* nx.strongly_connected_components returns, whatever it would yield
Truthy(comps) == TRUE

\* lines 237-253 and 365-381: the outcome of the function on the built graph
Reduce(G, crs) ==
    LET sg_components == strongly_connected_components(G)
    IN  IF ~Truthy(sg_components) THEN [err |-> NotRoutableMsg]
        ELSE IF sg_components = <<>> THEN [err |-> MaxEmptyMsg]
        ELSE [err |-> "", g |-> Tagged(subgraph(G, max_len(sg_components)), crs)]

tomtom_gdf_to_nx_graph_2021(gdf_) ==
    Reduce(BuildGraph(Edges2021(gdf_.rows)), gdf_.crs)

tomtom_gdf_to_nx_graph_2017(gdf_) ==
    Reduce(BuildGraph(Edges2017(Coerced2017(gdf_.rows))), gdf_.crs)

\* ------------------------------------------------------------ the inputs
Nodes == 1..MaxNode

\* a coordinate pair (lon, lat) in degrees
Pt(x, y) == <<Num(x), Num(y)>>

LineA == <<Pt(0, 0), Pt(1, 2)>>

LineB == <<Pt(5, 5), Pt(6, 5), Pt(6, 7)>>

\* a row of the 2021 query, with the columns the reader uses
Raw2021(f, t, nid, dir, cm, sp, sn, geom) ==
    [junction_id_from |-> f, junction_id_to |-> t, netw_id |-> nid,
     simple_traffic_direction |-> dir, centimeters |-> cm,
     speed_average_pos |-> sp, speed_average_neg |-> sn, geom |-> geom]

\* a row of the 2017 query; backrd, privaterd and roughrd are selected but
\* never read, and are left out; identifiers arrive as floats
Raw2017(f, t, id, ow, m, mn, rc, frc, geom) ==
    [f_jnctid |-> Num(f), t_jnctid |-> Num(t), id |-> id, oneway |-> ow,
     meters |-> m, minutes |-> mn, rdcond |-> rc, frc |-> frc,
     wkb_geometry |-> geom]

\* rows that vary in topology: endpoints, identifier, direction, filter flag
TopoRows2021 ==
    {Raw2021(f, t, nid, dir, 100000, Some(60), Some(30), LineA) :
        f \in Nodes, t \in Nodes, nid \in {-1, 1}, dir \in {1, 2, 3, 4, 9}}

TopoRows2017 ==
    {Raw2017(f, t, Num(id), ow, Some(1000), Some(<<3, 1>>), Some(rc), Some(7), LineA) :
        f \in Nodes, t \in Nodes, id \in {-1, 1}, ow \in {"FT", "TF", "N"},
        rc \in {1, 2}}

\* rows that vary in their attribute columns
AttrRows2021 ==
    {Raw2021(f, t, nid, dir, cm, sp, sn, geom) :
        f \in Nodes, t \in Nodes, nid \in {0, 1}, dir \in {1, 2, 3, 4, 9},
        cm \in {0, 100000, 250000}, sp \in {NULL, Some(0), Some(60)},
        sn \in {NULL, Some(0), Some(30)}, geom \in {LineA, LineB}}

AttrRows2017 ==
    {Raw2017(f, t, id, ow, m, mn, rc, frc, geom) :
        f \in Nodes, t \in Nodes, id \in {Num(0), Num(1), <<3, 2>>},
        ow \in {"FT", "TF", "N", ""}, m \in {NULL, Some(1000), Some(2500)},
        mn \in {NULL, Some(<<7, 2>>)}, rc \in {NULL, Some(1), Some(2)},
        frc \in {Some(7), Some(8)}, geom \in {LineA, LineB}}

SeqsOf(D, lens) == UNION {[1..n -> D] : n \in lens}

NoFrame == [rows |-> <<>>, crs |-> ""]

NoGraph == [nodes |-> {}, edges |-> {}, graph |-> ""]

\* ------------------------------------------------------------ the state
VARIABLES
    vintage,        \* the vintage argument
    geofence_crs,   \* geofence.crs
    xy,             \* the xy argument
    raw,            \* the frame from_postgis returns for the geofence
    pc,             \* "call", "gdf", "returned" or "raised"
    gdf,            \* the frame get_tomtom_gdf_* returned
    g,              \* the graph that is returned
    err             \* the exception raised, "" if none

vars == <<vintage, geofence_crs, xy, raw, pc, gdf, g, err>>

Start == pc = "call" /\ gdf = NoFrame /\ g = NoGraph /\ err = ""

\* up to two rows of varied topology, default arguments
InitTopo ==
    /\ vintage \in {"2021", "2017"}
    /\ geofence_crs = LATLON_CRS
    /\ xy = TRUE
    /\ raw \in {[rows |-> rows, crs |-> NULL] :
                  rows \in SeqsOf(IF vintage = "2021" THEN TopoRows2021
                                  ELSE TopoRows2017, RowCounts)}
    /\ Start

\* one row of varied attributes, default arguments
InitAttr ==
    /\ vintage \in {"2021", "2017"}
    /\ geofence_crs = LATLON_CRS
    /\ xy = TRUE
    /\ raw \in {[rows |-> <<r>>, crs |-> NULL] :
                  r \in IF vintage = "2021" THEN AttrRows2021 ELSE AttrRows2017}
    /\ Start

\* varied arguments over an empty or a one-row result
InitArgs ==
    /\ vintage \in {"2021", "2017", "2019"}
    /\ geofence_crs \in {LATLON_CRS, XY_CRS}
    /\ xy \in BOOLEAN
    /\ raw \in {[rows |-> rows, crs |-> c] :
                  rows \in {<<>>} \cup
                      (IF vintage = "2021"
                       THEN {<<Raw2021(1, 2, 1, 1, 100000, Some(60), NULL, LineA)>>}
                       ELSE IF vintage = "2017"
                       THEN {<<Raw2017(1, 2, Num(1), "N", Some(1000), Some(<<3, 1>>),
                                       Some(1), Some(7), LineA)>>}
                       ELSE {}),
                  c \in {NULL, Some(LATLON_CRS)}}
    /\ Start

\* the one-way rows with identifier nid; fwd: forward rows only
OnewayRows(nid, fwd) ==
    IF vintage = "2021"
    THEN {Raw2021(f, t, nid, dir, 100000, Some(60), Some(30), LineA) :
             f \in Nodes, t \in Nodes, dir \in IF fwd THEN {2} ELSE {2, 3}}
    ELSE {Raw2017(f, t, Num(nid), ow, Some(1000), Some(<<3, 1>>), Some(1), Some(7),
                  LineA) :
             f \in Nodes, t \in Nodes, ow \in IF fwd THEN {"FT"} ELSE {"FT", "TF"}}

\* three one-way rows with the identifiers 1, 2, 3, the last in either
\* direction: components closed by directed cycles
InitOneway ==
    /\ vintage \in {"2021", "2017"}
    /\ geofence_crs = LATLON_CRS
    /\ xy = TRUE
    /\ raw \in {[rows |-> <<r1, r2, r3>>, crs |-> NULL] :
                  r1 \in OnewayRows(1, TRUE), r2 \in OnewayRows(2, TRUE),
                  r3 \in OnewayRows(3, FALSE)}
    /\ Start

Init == InitTopo \/ InitAttr \/ InitArgs \/ InitOneway

\* ----------------------------------------------------------- the actions
Raise(msg) ==
    /\ pc' = "raised"
    /\ err' = msg

\* lines 28-31
RaiseCrs ==
    /\ pc = "call"
    /\ geofence_crs # LATLON_CRS
    /\ Raise(CrsMsg(geofence_crs))
    /\ UNCHANGED <<vintage, geofence_crs, xy, raw, gdf, g>>

\* lines 39-42
RaiseVintage ==
    /\ pc = "call"
    /\ geofence_crs = LATLON_CRS
    /\ vintage \notin {"2021", "2017"}
    /\ Raise(VintageMsg(vintage))
    /\ UNCHANGED <<vintage, geofence_crs, xy, raw, gdf, g>>

\* line 34: the call of get_tomtom_gdf_2021 (lines 47-88)
GetGdf2021 ==
    /\ pc = "call"
    /\ geofence_crs = LATLON_CRS
    /\ vintage = "2021"
    /\ IF Empty(raw)
       THEN Raise(NoLinksMsg) /\ UNCHANGED gdf
       ELSE /\ gdf' = get_tomtom_gdf_2021(raw, xy)
            /\ pc' = "gdf"
            /\ UNCHANGED err
    /\ UNCHANGED <<vintage, geofence_crs, xy, raw, g>>

\* line 37: the call of get_tomtom_gdf_2017 (lines 91-127)
GetGdf2017 ==
    /\ pc = "call"
    /\ geofence_crs = LATLON_CRS
    /\ vintage = "2017"
    /\ IF Empty(raw)
       THEN Raise(NoLinksMsg) /\ UNCHANGED gdf
       ELSE /\ gdf' = get_tomtom_gdf_2017(raw, xy)
            /\ pc' = "gdf"
            /\ UNCHANGED err
    /\ UNCHANGED <<vintage, geofence_crs, xy, raw, g>>

\* line 35: the call of tomtom_gdf_to_nx_graph_2021 (lines 130-253), line 44
ToNx2021 ==
    /\ pc = "gdf"
    /\ vintage = "2021"
    /\ LET r == tomtom_gdf_to_nx_graph_2021(gdf)
       IN  IF r.err # ""
           THEN Raise(r.err) /\ UNCHANGED g
           ELSE g' = r.g /\ pc' = "returned" /\ UNCHANGED err
    /\ UNCHANGED <<vintage, geofence_crs, xy, raw, gdf>>

\* line 38: the call of tomtom_gdf_to_nx_graph_2017 (lines 256-381), line 44
ToNx2017 ==
    /\ pc = "gdf"
    /\ vintage = "2017"
    /\ LET r == tomtom_gdf_to_nx_graph_2017(gdf)
       IN  IF r.err # ""
           THEN Raise(r.err) /\ UNCHANGED g
           ELSE g' = r.g /\ pc' = "returned" /\ UNCHANGED err
    /\ gdf' = [gdf EXCEPT !.rows = Coerced2017(@)]
    /\ UNCHANGED <<vintage, geofence_crs, xy, raw>>

Next ==
    \/ RaiseCrs
    \/ RaiseVintage
    \/ GetGdf2021
    \/ GetGdf2017
    \/ ToNx2021
    \/ ToNx2017

Spec == Init /\ [][Next]_vars

\* ------------------------------------------------- vocabulary of the claims
\* the frame has been produced (by get_tomtom_gdf_*)
AfterGdf == pc \in {"gdf", "returned"} \/ (pc = "raised" /\ gdf # NoFrame)

\* the graph function has run on the frame
AfterToNx == pc = "returned" \/ (pc = "raised" /\ gdf # NoFrame)

\* the rows the edge comprehensions have read (in the 2017 variant the frame
\* as the function left it, identifiers coerced)
EdgeRows == gdf.rows

AllEdges ==
    IF vintage = "2021" THEN Edges2021(EdgeRows) ELSE Edges2017(EdgeRows)

\* the expansion of one row
Expand(r) == IF vintage = "2021" THEN Edges2021(<<r>>) ELSE Edges2017(<<r>>)

Built == BuildGraph(AllEdges)

DirBoth(r) ==
    IF vintage = "2021" THEN r.simple_traffic_direction \in {1, 9}
    ELSE r.oneway \notin {"FT", "TF"}

DirForward(r) ==
    IF vintage = "2021" THEN r.simple_traffic_direction = 2 ELSE r.oneway = "FT"

DirBackward(r) ==
    IF vintage = "2021" THEN r.simple_traffic_direction = 3 ELSE r.oneway = "TF"

FromOf(r) == IF vintage = "2021" THEN r.junction_id_from ELSE r.f_jnctid

ToOf(r) == IF vintage = "2021" THEN r.junction_id_to ELSE r.t_jnctid

IdOf(r) == IF vintage = "2021" THEN r.netw_id ELSE r.id

ForwardMinutes(r) == IF vintage = "2021" THEN r.pos_minutes ELSE r.minutes

BackwardMinutes(r) == IF vintage = "2021" THEN r.neg_minutes ELSE r.minutes

SeqToSet(s) == {s[i] : i \in 1..Len(s)}

\* the nodes reachable from the set S along the edges E
RECURSIVE ReachFrom(_, _)
ReachFrom(E, S) ==
    LET T == S \cup {e.v : e \in {x \in E : x.u \in S}}
    IN  IF T = S THEN S ELSE ReachFrom(E, T)

StronglyConnected(N, E) == \A u \in N : N \subseteq ReachFrom(E, {u})

\* the strongly connected components of a built graph, from the definition
Components(G) ==
    LET E == SeqToSet(G.edges)
        N == SeqToSet(G.nodes)
    IN  {{m \in N : m \in ReachFrom(E, {n}) /\ n \in ReachFrom(E, {m})} : n \in N}

Greatest(G) ==
    {c \in Components(G) : \A d \in Components(G) : Cardinality(d) <= Cardinality(c)}

Inside(e, N) == e.u \in N /\ e.v \in N

\* the rows of the query result in every order
Orders(rows) ==
    {[i \in 1..Len(rows) |-> rows[p[i]]] :
        p \in {q \in [1..Len(rows) -> 1..Len(rows)] :
                 \A a, b \in 1..Len(rows) : q[a] = q[b] => a = b}}

\* what the graph function does on the same query result in another order
Outcome(rows) ==
    IF vintage = "2021"
    THEN tomtom_gdf_to_nx_graph_2021(
             get_tomtom_gdf_2021([rows |-> rows, crs |-> raw.crs], xy))
    ELSE tomtom_gdf_to_nx_graph_2017(
             get_tomtom_gdf_2017([rows |-> rows, crs |-> raw.crs], xy))

\* ------------------------------------------------------------------ C1
\* C1: whenever a graph function returns, the returned graph is strongly
\* connected: every node of it reaches every other along its own edges.
Thm_C1 ==
    pc = "returned" =>
        /\ g.nodes # {}
        /\ \A e \in g.edges : Inside(e, g.nodes)
        /\ StronglyConnected(g.nodes, g.edges)

\* a returned graph of three junctions on a cycle of three one-way roads
Wit_C1 ==
    /\ pc = "returned"
    /\ Cardinality(g.nodes) = 3
    /\ Cardinality(g.edges) = 3
    /\ \A e \in g.edges : e.u # e.v

\* ------------------------------------------------------------------ C2
\* C2: the returned graph is the induced subgraph of the built graph on a
\* strongly connected component of greatest node count: its nodes are that
\* component and its edges are exactly the built edges, attributes included,
\* with both endpoints in it.
Thm_C2 ==
    pc = "returned" =>
        /\ g.nodes \in Greatest(Built)
        /\ g.edges = {e \in SeqToSet(Built.edges) : Inside(e, g.nodes)}
        /\ Cardinality(g.edges) =
               Cardinality({i \in 1..Len(Built.edges) :
                               Inside(Built.edges[i], g.nodes)})

\* a returned two-junction component, with a built junction and a built edge
\* left out of it
Wit_C2 ==
    /\ pc = "returned"
    /\ Cardinality(g.nodes) = 2
    /\ SeqToSet(Built.nodes) \ g.nodes # {}
    /\ \E e \in SeqToSet(Built.edges) : e \notin g.edges
    /\ g.edges # {}

\* ------------------------------------------------------------------ C3
BothShape(r, es) ==
    /\ Len(es) = 2
    /\ es[1].u = es[2].v
    /\ es[1].v = es[2].u
    /\ \E i \in 1..2 : es[i].u = FromOf(r) /\ es[i].v = ToOf(r)

\* C3: a Both row expands to exactly 2 edges, mutual reverses, whose keys
\* differ, in the 2021 and in the 2017 variant.
Orig_C3 ==
    AfterToNx =>
        \A i \in 1..Len(EdgeRows) :
            DirBoth(EdgeRows[i]) =>
                LET es == Expand(EdgeRows[i])
                IN  BothShape(EdgeRows[i], es) /\ es[1].key # es[2].key


\* ------------------------------------------------------------------ C4
\* C4: a Forward row expands to exactly 1 edge, from -> to, with the forward
\* minutes; a Backward row to exactly 1 edge, to -> from, with the backward
\* minutes.
Thm_C4 ==
    AfterToNx =>
        \A i \in 1..Len(EdgeRows) :
            LET r == EdgeRows[i]
                es == Expand(r)
            IN  /\ DirForward(r) =>
                      /\ Len(es) = 1
                      /\ es[1].u = FromOf(r) /\ es[1].v = ToOf(r)
                      /\ es[1].dd.minutes = ForwardMinutes(r)
                /\ DirBackward(r) =>
                      /\ Len(es) = 1
                      /\ es[1].u = ToOf(r) /\ es[1].v = FromOf(r)
                      /\ es[1].dd.minutes = BackwardMinutes(r)

\* a returned graph holding the edge of a Backward row whose two directions
\* take different times
Wit_C4 ==
    /\ pc = "returned"
    /\ vintage = "2021"
    /\ \E i \in 1..Len(EdgeRows) :
          /\ DirBackward(EdgeRows[i])
          /\ EdgeRows[i].pos_minutes # EdgeRows[i].neg_minutes
          /\ SeqToSet(Expand(EdgeRows[i])) \subseteq g.edges

\* ------------------------------------------------------------------ C5
\* C5: a graph without edges is never returned; when the built graph has no
\* edge, or no edge survives the reduction, the function raises the
\* not-routable MapException.
Orig_C5 ==
    /\ pc = "returned" => g.edges # {}
    /\ (pc = "raised" /\ gdf # NoFrame) => err = NotRoutableMsg

\* ------------------------------------------------------------------ C6
\* C6: when the query result is empty, and when the 2017 filter leaves no
\* row, the reader raises the no-links MapException and builds no graph.
Orig_C6 ==
    (/\ pc # "call"
     /\ geofence_crs = LATLON_CRS
     /\ \/ vintage = "2021" /\ Empty(raw)
        \/ vintage = "2017" /\ SelectSeq(raw.rows, Keep2017) = <<>>)
        => pc = "raised" /\ err = NoLinksMsg

\* ------------------------------------------------------------------ C7
\* C7: graph building never silently loses an edge: every expanded edge is
\* its own (from, to, key) entry of the built graph, or the collision is
\* reported.
Orig_C7 ==
    AfterToNx =>
        \/ Len(Built.edges) = Len(AllEdges)
        \/ err = "MapException: edge key collision"

\* ------------------------------------------------------------------ C8
Classes2021(r) ==
    {c \in {"FT", "TF", "Both"} :
        \/ c = "FT" /\ IsOnewayFT2021(r)
        \/ c = "TF" /\ IsOnewayTF2021(r)
        \/ c = "Both" /\ IsTwoway2021(r)}

Classes2017(r) ==
    {c \in {"FT", "TF", "Both"} :
        \/ c = "FT" /\ IsOnewayFT2017(r)
        \/ c = "TF" /\ IsOnewayTF2017(r)
        \/ c = "Both" /\ IsTwoway2017(r)}

\* C8 as stated: every row falls in exactly one class and is never dropped
\* with zero edges; a code its variant does not know makes it Both or raises
\* a schema error.
Orig_C8 ==
    AfterToNx =>
        \A i \in 1..Len(EdgeRows) :
            \/ Expand(EdgeRows[i]) # <<>>
            \/ err = "SchemaError"

\* C8 amended: every row falls in at most one class.  A 2017 row falls in
\* exactly one (any oneway other than 'FT' and 'TF' is Both) and expands to
\* at least one edge.  A 2021 row falls in exactly one class when its code
\* is 1, 2, 3 or 9; with any other code it falls in none and expands to zero
\* edges.
Thm_C8 ==
    AfterToNx =>
        \A i \in 1..Len(EdgeRows) :
            LET r == EdgeRows[i]
            IN  IF vintage = "2017"
                THEN Cardinality(Classes2017(r)) = 1 /\ Expand(r) # <<>>
                ELSE IF r.simple_traffic_direction \in {1, 2, 3, 9}
                THEN Cardinality(Classes2021(r)) = 1 /\ Expand(r) # <<>>
                ELSE Classes2021(r) = {} /\ Expand(r) = <<>>

\* a 2021 graph returned from a frame one of whose rows has code 4 and has
\* left no edge
Wit_C8 ==
    /\ pc = "returned"
    /\ vintage = "2021"
    /\ \E i \in 1..Len(EdgeRows) :
          /\ EdgeRows[i].simple_traffic_direction = 4
          /\ \A e \in g.edges : e.key # EdgeRows[i].netw_id

\* ------------------------------------------------------------------ C9
\* m is (cm * 0.00001 / s) * 60, the division by zero included
MinutesAre(m, cm, s) ==
    IF s = 0 THEN m = <<Sgn(cm), 0>>
    ELSE m[2] > 0 /\ m[1] * 100000 * s = m[2] * cm * 60

\* C9 as stated: a missing or zero speed is replaced by 20 before the time
\* is derived; a present non-zero speed s gives (kilometers / s) * 60.
Orig_C9 ==
    (vintage = "2021" /\ AfterGdf) =>
        \A i \in 1..Len(gdf.rows) :
            LET r == raw.rows[i]
                sp == IF r.speed_average_pos \in {NULL, Some(0)} THEN 20
                      ELSE r.speed_average_pos[1]
                sn == IF r.speed_average_neg \in {NULL, Some(0)} THEN 20
                      ELSE r.speed_average_neg[1]
            IN  /\ MinutesAre(gdf.rows[i].pos_minutes, r.centimeters, sp)
                /\ MinutesAre(gdf.rows[i].neg_minutes, r.centimeters, sn)

\* C9 amended: a missing speed is replaced by 20 before the time is derived;
\* a present speed s, zero included, gives (kilometers / s) * 60, which for
\* s = 0 is a division by zero: infinite when kilometers > 0, NaN when
\* kilometers = 0.
Thm_C9 ==
    (vintage = "2021" /\ AfterGdf) =>
        \A i \in 1..Len(gdf.rows) :
            LET r == raw.rows[i]
                sp == IF r.speed_average_pos = NULL THEN 20
                      ELSE r.speed_average_pos[1]
                sn == IF r.speed_average_neg = NULL THEN 20
                      ELSE r.speed_average_neg[1]
            IN  /\ MinutesAre(gdf.rows[i].pos_minutes, r.centimeters, sp)
                /\ MinutesAre(gdf.rows[i].neg_minutes, r.centimeters, sn)

\* a returned 2021 graph with an edge of infinite minutes (speed 0) next to
\* one timed at the default speed (speed missing)
Wit_C9 ==
    /\ pc = "returned"
    /\ vintage = "2021"
    /\ raw.rows[1].speed_average_pos = Some(0)
    /\ raw.rows[1].speed_average_neg = NULL
    /\ \E e \in g.edges : IsInf(e.dd.minutes)
    /\ \E e \in g.edges :
          e.dd.minutes = FMul(FDiv(e.dd.kilometers, Num(20)), Num(60))

\* ----------------------------------------------------------------- C10
\* C10 as stated: the retained component depends on the set of rows alone;
\* the same rows in any order give the same retained node set.
Orig_C10 ==
    pc = "returned" =>
        \A rows \in Orders(raw.rows) : Outcome(rows).g.nodes = g.nodes

\* C10 amended: in whatever order the rows are presented, the retained node
\* set is one of the components of greatest node count; among tied ones it
\* is the first that the component enumeration yields, which depends on the
\* order of the rows.
Thm_C10 ==
    pc = "returned" =>
        \A rows \in Orders(raw.rows) :
            LET o == Outcome(rows)
                G == BuildGraph(IF vintage = "2021"
                         THEN Edges2021(get_tomtom_gdf_2021(
                                  [rows |-> rows, crs |-> raw.crs], xy).rows)
                         ELSE Edges2017(Coerced2017(get_tomtom_gdf_2017(
                                  [rows |-> rows, crs |-> raw.crs], xy).rows)))
                sccs == strongly_connected_components(G)
            IN  /\ o.err = ""
                /\ o.g.nodes \in Greatest(Built)
                /\ \E k \in 1..Len(sccs) :
                      /\ sccs[k] = o.g.nodes
                      /\ \A j \in 1..(k - 1) :
                            Cardinality(sccs[j]) < Cardinality(sccs[k])

\* a returned graph whose retained component is tied with another, and
\* another order of the same rows retains a different one
Wit_C10 ==
    /\ pc = "returned"
    /\ Cardinality(Greatest(Built)) >= 2
    /\ \E rows \in Orders(raw.rows) : Outcome(rows).g.nodes # g.nodes

====
